---- MODULE Spec2Model ----
(***************************************************************************)
(* Stroke-risk form: the App component's form state, validateInputs,       *)
(* handleSubmit and the predictStrokeRisk gateway (src/App.tsx,            *)
(* services/predictionService, types).                                     *)
(*                                                                         *)
(* JavaScript values are records with the same four fields, so that any    *)
(* two of them can be compared: t is the type tag, s a string payload,     *)
(* n a numeric payload, p the property map of an object.  Numbers are      *)
(* integers (the form's fractional inputs are not modelled).               *)
(***************************************************************************)
EXTENDS Integers, Sequences, FiniteSets, TLC

\* ------------------------------------------------------------------ bounds
\* Remote calls that may be outstanding together before the model stops
\* issuing more.
MaxCalls == 2

\* --------------------------------------------------------------- JS values
NoProps == [k \in {} |-> 0]

Undefined == [t |-> "undefined", s |-> "", n |-> 0, p |-> NoProps]
Null      == [t |-> "null",      s |-> "", n |-> 0, p |-> NoProps]
Str(x)    == [t |-> "string",    s |-> x,  n |-> 0, p |-> NoProps]
Num(x)    == [t |-> "number",    s |-> "", n |-> x, p |-> NoProps]
Bool(x)   == [t |-> "boolean",   s |-> IF x THEN "true" ELSE "false", n |-> 0, p |-> NoProps]
Obj(f)    == [t |-> "object",    s |-> "", n |-> 0, p |-> f]

\* typeof v
typeof(v) == IF v.t = "null" THEN "object" ELSE v.t

\* ToBoolean(v), as used by `if (x)` and `x && ...`
Truthy(v) ==
  CASE v.t = "undefined" -> FALSE
    [] v.t = "null"      -> FALSE
    [] v.t = "string"    -> v.s # ""
    [] v.t = "number"    -> v.n # 0
    [] v.t = "boolean"   -> v.s = "true"
    [] OTHER             -> TRUE

\* ------------------------------------------------------------ domain model
Gender == {"Male", "Female", "Other"}
RiskLevels == {"Low Risk", "Moderate Risk", "High Risk"}

\* The PredictionResult interface: what a value must look like to be one.
IsPredictionResult(v) ==
  /\ v.t = "object"
  /\ {"strokePrediction", "probability", "riskLevel"} \subseteq DOMAIN v.p
  /\ v.p["strokePrediction"].t = "boolean"
  /\ v.p["probability"].t = "number"
  /\ v.p["riskLevel"].t = "string"
  /\ v.p["riskLevel"].s \in RiskLevels

\* ------------------------------------------------ number inputs of the form
\* What the user has typed into an <input type="number">, as characters.
Digits == {"0", "1", "2", "3", "4", "5", "6", "7", "8", "9"}

DigitVal(c) ==
  CASE c = "0" -> 0 [] c = "1" -> 1 [] c = "2" -> 2 [] c = "3" -> 3
    [] c = "4" -> 4 [] c = "5" -> 5 [] c = "6" -> 6 [] c = "7" -> 7
    [] c = "8" -> 8 [] c = "9" -> 9

\* Digits only, at least one.
AllDigits(txt) == Len(txt) > 0 /\ \A i \in 1..Len(txt) : txt[i] \in Digits

\* A number input hands out its text only when it is a valid number
\* (here: an optional minus sign and digits); anything else reads as ''.
InputValue(txt) ==
  IF AllDigits(txt) \/ (Len(txt) > 1 /\ txt[1] = "-" /\ AllDigits(Tail(txt)))
  THEN txt ELSE <<>>

RECURSIVE DigitsToNat(_)
DigitsToNat(txt) ==
  IF Len(txt) = 0 THEN 0
  ELSE 10 * DigitsToNat(SubSeq(txt, 1, Len(txt) - 1)) + DigitVal(txt[Len(txt)])

\* Number(str) for the strings a number input can hand out.
Number(txt) ==
  IF txt[1] = "-" THEN Num(0 - DigitsToNat(Tail(txt))) ELSE Num(DigitsToNat(txt))

\* e.target.value === '' ? '' : Number(e.target.value)
NumberFieldValue(txt) ==
  LET value == InputValue(txt) IN IF value = <<>> THEN Str("") ELSE Number(value)

\* ------------------------------------------------------------- validateInputs
\* obj[key] = value on a plain object
Put(f, k, v) == [x \in (DOMAIN f) \cup {k} |-> IF x = k THEN v ELSE f[x]]

\* The running state of validateInputs: the local `errors` and `isValid`.
ValidationStart == [errors |-> NoProps, isValid |-> TRUE]

\* Variant: the entry is written but isValid is left as it was.
Flag_KeepsValid(st, field, msg) ==
  [errors |-> Put(st.errors, field, Str(msg)), isValid |-> st.isValid]

Flag(st, field, msg) == [errors |-> Put(st.errors, field, Str(msg)), isValid |-> FALSE]

\* Variant: the upper end of the age range is excluded.
CheckAge_OffByOne(fd, st) ==
  IF fd.age = Str("") \/ typeof(fd.age) # "number"
  THEN Flag(st, "age", "Age is required.")
  ELSE IF fd.age.n < 0 \/ fd.age.n >= 120
       THEN Flag(st, "age", "Please enter a valid age (0-120).")
       ELSE st

\* Age Validation: 0 to 120
CheckAge(fd, st) ==
  IF fd.age = Str("") \/ typeof(fd.age) # "number"
  THEN Flag(st, "age", "Age is required.")
  ELSE IF fd.age.n < 0 \/ fd.age.n > 120
       THEN Flag(st, "age", "Please enter a valid age (0-120).")
       ELSE st

\* Glucose Validation: 30 to 600 mg/dL
CheckGlucose(fd, st) ==
  IF fd.avgGlucoseLevel = Str("") \/ typeof(fd.avgGlucoseLevel) # "number"
  THEN Flag(st, "avgGlucoseLevel", "Glucose level is required.")
  ELSE IF fd.avgGlucoseLevel.n < 30 \/ fd.avgGlucoseLevel.n > 600
       THEN Flag(st, "avgGlucoseLevel", "Value must be between 30 and 600 mg/dL.")
       ELSE st

\* BMI Validation: 10 to 100
CheckBmi(fd, st) ==
  IF fd.bmi = Str("") \/ typeof(fd.bmi) # "number"
  THEN Flag(st, "bmi", "BMI is required.")
  ELSE IF fd.bmi.n < 10 \/ fd.bmi.n > 100
       THEN Flag(st, "bmi", "Value must be between 10 and 100.")
       ELSE st

\* validateInputs(): the error map handed to setValidationErrors and the
\* boolean returned.
validateInputs(fd) == CheckBmi(fd, CheckGlucose(fd, CheckAge(fd, ValidationStart)))

\* ------------------------------------------------------------------- JSON
\* A response text is a sequence of JSON lexemes: punctuation, string and
\* number literals, the three keyword literals, and "word" for characters
\* that begin no JSON lexeme.  Only flat objects and scalars occur.
Tok(k, s, n) == [k |-> k, s |-> s, n |-> n]
LBrace == Tok("{", "", 0)
RBrace == Tok("}", "", 0)
Colon  == Tok(":", "", 0)
Comma  == Tok(",", "", 0)
TStr(x) == Tok("string", x, 0)
TNum(x) == Tok("number", "", x)
TTrue  == Tok("true", "", 0)
TFalse == Tok("false", "", 0)
TNull  == Tok("null", "", 0)
TWord(x) == Tok("word", x, 0)

IsScalarTok(tk) == tk.k \in {"string", "number", "true", "false", "null"}

ScalarValue(tk) ==
  CASE tk.k = "string" -> Str(tk.s)
    [] tk.k = "number" -> Num(tk.n)
    [] tk.k = "true"   -> Bool(TRUE)
    [] tk.k = "false"  -> Bool(FALSE)
    [] OTHER           -> Null

ParseFail == [ok |-> FALSE, value |-> Undefined]
ParseOk(v) == [ok |-> TRUE, value |-> v]

\* members of an object from position i on; a repeated key keeps the last
\* value.
RECURSIVE ParseMembers(_, _, _)
ParseMembers(toks, i, acc) ==
  IF i + 3 > Len(toks) THEN ParseFail
  ELSE IF ~(toks[i].k = "string" /\ toks[i + 1].k = ":" /\ IsScalarTok(toks[i + 2]))
       THEN ParseFail
       ELSE LET acc2 == Put(acc, toks[i].s, ScalarValue(toks[i + 2])) IN
            IF toks[i + 3].k = "}"
            THEN IF i + 3 = Len(toks) THEN ParseOk(Obj(acc2)) ELSE ParseFail
            ELSE IF toks[i + 3].k = "," THEN ParseMembers(toks, i + 4, acc2)
                 ELSE ParseFail

\* JSON.parse(text): ok and the value, or not ok (SyntaxError thrown).
JSONParse(toks) ==
  IF Len(toks) = 0 THEN ParseFail
  ELSE IF Len(toks) = 1
       THEN IF IsScalarTok(toks[1]) THEN ParseOk(ScalarValue(toks[1])) ELSE ParseFail
       ELSE IF toks[1].k # "{" THEN ParseFail
            ELSE IF Len(toks) = 2
                 THEN IF toks[2].k = "}" THEN ParseOk(Obj(NoProps)) ELSE ParseFail
                 ELSE ParseMembers(toks, 2, NoProps)

\* ------------------------------------------------------ predictStrokeRisk
Err(name, message) == [name |-> name, message |-> message]
NoErr == Err("", "")
SyntaxError == Err("SyntaxError", "Unexpected token in JSON")
NoResponseError == Err("Error", "No response from AI model")

\* What ai.models.generateContent does: it throws, or it returns a response
\* whose text is a string or undefined.
Threw(e)     == [kind |-> "throw", hasText |-> FALSE, text |-> <<>>, err |-> e]
WithText(tx) == [kind |-> "return", hasText |-> TRUE, text |-> tx, err |-> NoErr]
WithoutText  == [kind |-> "return", hasText |-> FALSE, text |-> <<>>, err |-> NoErr]
NoResponse   == [kind |-> "none", hasText |-> FALSE, text |-> <<>>, err |-> NoErr]

\* Variant: the text is handed to JSON.parse without the emptiness test.
HasTruthyText_Unchecked(r) == TRUE

\* if (response.text)
HasTruthyText(r) == r.hasText /\ Len(r.text) > 0

Pending      == [status |-> "pending", value |-> Undefined, reason |-> NoErr]
Fulfilled(v) == [status |-> "fulfilled", value |-> v, reason |-> NoErr]
Rejected(e)  == [status |-> "rejected", value |-> Undefined, reason |-> e]

\* Variant: a probability above 100 is clamped to 100 before resolving.
predictStrokeRisk_Clamped(data, r) ==
  IF r.kind = "throw" THEN Rejected(r.err)
  ELSE IF HasTruthyText(r)
       THEN LET parsed == JSONParse(r.text) IN
            IF parsed.ok
            THEN IF /\ parsed.value.t = "object"
                    /\ "probability" \in DOMAIN parsed.value.p
                    /\ parsed.value.p["probability"].t = "number"
                    /\ parsed.value.p["probability"].n > 100
                 THEN Fulfilled(Obj(Put(parsed.value.p, "probability", Num(100))))
                 ELSE Fulfilled(parsed.value)
            ELSE Rejected(SyntaxError)
       ELSE Rejected(NoResponseError)

\* The promise predictStrokeRisk(data) settles to, given what the remote
\* call did.  The catch block logs and rethrows.
predictStrokeRisk(data, r) ==
  IF r.kind = "throw" THEN Rejected(r.err)
  ELSE IF HasTruthyText(r)
       THEN LET parsed == JSONParse(r.text) IN
            IF parsed.ok THEN Fulfilled(parsed.value) ELSE Rejected(SyntaxError)
       ELSE Rejected(NoResponseError)

\* ------------------------------------------------------------ environment
\* What the user types into the three number inputs.
AgeTexts     == { <<>>, <<"-">>, <<"-", "1">>, <<"0">>, <<"1", "2", "0">>, <<"1", "2", "1">> }
GlucoseTexts == { <<>>, <<"2", "9">>, <<"3", "0">>, <<"6", "0", "0">>, <<"6", "0", "1">> }
BmiTexts     == { <<>>, <<"9">>, <<"1", "0">>, <<"1", "0", "0">>, <<"1", "0", "1">> }

\* {"strokePrediction": sp, "probability": pr, "riskLevel": rl}
ResultText(sp, pr, rl) ==
  << LBrace, TStr("strokePrediction"), Colon, sp, Comma,
     TStr("probability"), Colon, pr, Comma,
     TStr("riskLevel"), Colon, rl, RBrace >>

TextHighRisk    == ResultText(TTrue, TNum(72), TStr("High Risk"))
TextOver100     == ResultText(TTrue, TNum(150), TStr("High Risk"))
TextOtherLabel  == ResultText(TFalse, TNum(12), TStr("Minimal Risk"))
TextWrongType   == ResultText(TTrue, TStr("72"), TStr("High Risk"))
TextMissingProp == << LBrace, TStr("strokePrediction"), Colon, TTrue, Comma,
                      TStr("probability"), Colon, TNum(72), RBrace >>
TextNull        == << TNull >>
TextNotJson     == << TWord("not"), TWord("json") >>
TextTruncated   == << LBrace, TStr("strokePrediction"), Colon, TTrue, Comma >>

TransportErrors == { Err("TypeError", "fetch failed") }

\* What the remote service may do with a call.
Responses ==
  { Threw(e) : e \in TransportErrors }
    \cup { WithoutText, WithText(<<>>) }
    \cup { WithText(tx) : tx \in { TextHighRisk, TextOver100, TextOtherLabel, TextWrongType,
                                   TextMissingProp, TextNull, TextNotJson, TextTruncated } }

\* ------------------------------------------------------------------ state
VARIABLES formData, result, loading, error, validationErrors, calls, lastEvent

vars == <<formData, result, loading, error, validationErrors, calls, lastEvent>>

ValidationSummary == "Please correct the errors in the highlighted fields."
PredictionFailed  == "Failed to generate prediction. Please try again."

\* useState initial values
Init ==
  /\ formData = [gender |-> Str("Male"), age |-> Str(""), hypertension |-> Bool(FALSE),
                 avgGlucoseLevel |-> Str(""), bmi |-> Str("")]
  /\ result = Null
  /\ loading = FALSE
  /\ error = Null
  /\ validationErrors = NoProps
  /\ calls = <<>>
  /\ lastEvent = "mount"

\* A settled call whose `await` has not resumed handleSubmit yet.  The
\* resumption is a microtask: it runs before any further user event.
MicrotaskPending == \E i \in DOMAIN calls : calls[i].promise.status # "pending"

\* Variant: the button is never disabled.
SubmitEnabled_Always == TRUE

\* <button onClick={handleSubmit} disabled={loading}>
SubmitEnabled == ~loading

handleInputChange(field, value) ==
  /\ formData' = [formData EXCEPT ![field] = value]
  /\ validationErrors' =
       IF field \in DOMAIN validationErrors /\ Truthy(validationErrors[field])
       THEN [validationErrors EXCEPT ![field] = Undefined]
       ELSE validationErrors
  /\ UNCHANGED <<result, loading, error, calls>>

ChangeGender ==
  /\ ~MicrotaskPending
  /\ \E g \in Gender : handleInputChange("gender", Str(g))
  /\ lastEvent' = "change"

ChangeAge ==
  /\ ~MicrotaskPending
  /\ \E txt \in AgeTexts : handleInputChange("age", NumberFieldValue(txt))
  /\ lastEvent' = "change"

ToggleHypertension ==
  /\ ~MicrotaskPending
  /\ handleInputChange("hypertension", Bool(~Truthy(formData.hypertension)))
  /\ lastEvent' = "change"

ChangeGlucose ==
  /\ ~MicrotaskPending
  /\ \E txt \in GlucoseTexts : handleInputChange("avgGlucoseLevel", NumberFieldValue(txt))
  /\ lastEvent' = "change"

ChangeBmi ==
  /\ ~MicrotaskPending
  /\ \E txt \in BmiTexts : handleInputChange("bmi", NumberFieldValue(txt))
  /\ lastEvent' = "change"

\* The remote call predictStrokeRisk(formData) has started.
NewCall(data) == [data |-> data, response |-> NoResponse, promise |-> Pending]

\* Variant: no `return` after a failed validation.
handleSubmit_NoReturn ==
  LET v == validateInputs(formData) IN
  /\ result' = Null
  /\ validationErrors' = v.errors
  /\ error' = IF ~v.isValid THEN Str(ValidationSummary) ELSE Null
  /\ loading' = TRUE
  /\ calls' = Append(calls, NewCall(formData))
  /\ UNCHANGED formData

\* Variant: the previous result is not cleared.
handleSubmit_KeepsResult ==
  LET v == validateInputs(formData) IN
  /\ UNCHANGED result
  /\ validationErrors' = v.errors
  /\ IF ~v.isValid
     THEN /\ error' = Str(ValidationSummary)
          /\ UNCHANGED <<loading, calls>>
     ELSE /\ error' = Null
          /\ loading' = TRUE
          /\ calls' = Append(calls, NewCall(formData))
  /\ UNCHANGED formData

\* Variant: the previous error is not cleared.
handleSubmit_KeepsError ==
  LET v == validateInputs(formData) IN
  /\ result' = Null
  /\ validationErrors' = v.errors
  /\ IF ~v.isValid
     THEN /\ error' = Str(ValidationSummary)
          /\ UNCHANGED <<loading, calls>>
     ELSE /\ UNCHANGED error
          /\ loading' = TRUE
          /\ calls' = Append(calls, NewCall(formData))
  /\ UNCHANGED formData

\* handleSubmit up to its await.
handleSubmit ==
  LET v == validateInputs(formData) IN
  /\ result' = Null
  /\ validationErrors' = v.errors
  /\ IF ~v.isValid
     THEN /\ error' = Str(ValidationSummary)
          /\ UNCHANGED <<loading, calls>>
     ELSE /\ error' = Null
          /\ loading' = TRUE
          /\ calls' = Append(calls, NewCall(formData))
  /\ UNCHANGED formData

ClickSubmit ==
  /\ ~MicrotaskPending
  /\ SubmitEnabled
  /\ Len(calls) < MaxCalls
  /\ handleSubmit
  /\ lastEvent' = "submit"

\* The remote call of calls[i] comes back and predictStrokeRisk settles.
RemoteResponds ==
  /\ ~MicrotaskPending
  /\ \E i \in DOMAIN calls, r \in Responses :
       /\ calls[i].promise.status = "pending"
       /\ calls' = [calls EXCEPT ![i] = [data |-> @.data, response |-> r,
                                         promise |-> predictStrokeRisk(@.data, r)]]
  /\ lastEvent' = "response"
  /\ UNCHANGED <<formData, result, loading, error, validationErrors>>

Without(sq, i) == SubSeq(sq, 1, i - 1) \o SubSeq(sq, i + 1, Len(sq))

\* Variant: the catch block shows the message of the error it caught.
resumeSubmit_ShowsReason(promise) ==
  /\ result' = IF promise.status = "fulfilled" THEN promise.value ELSE result
  /\ error' = IF promise.status = "rejected" THEN Str(promise.reason.message) ELSE error
  /\ loading' = FALSE

\* Variant: setLoading(false) at the end of the try block, not in finally.
resumeSubmit_NoFinally(promise) ==
  /\ result' = IF promise.status = "fulfilled" THEN promise.value ELSE result
  /\ error' = IF promise.status = "rejected" THEN Str(PredictionFailed) ELSE error
  /\ loading' = IF promise.status = "fulfilled" THEN FALSE ELSE loading

\* handleSubmit after its await: try / catch / finally.
resumeSubmit(promise) ==
  /\ result' = IF promise.status = "fulfilled" THEN promise.value ELSE result
  /\ error' = IF promise.status = "rejected" THEN Str(PredictionFailed) ELSE error
  /\ loading' = FALSE

SubmitResumes ==
  /\ \E i \in DOMAIN calls :
       /\ calls[i].promise.status # "pending"
       /\ resumeSubmit(calls[i].promise)
       /\ calls' = Without(calls, i)
  /\ lastEvent' = "settle"
  /\ UNCHANGED <<formData, validationErrors>>

Next ==
  \/ ChangeGender
  \/ ChangeAge
  \/ ToggleHypertension
  \/ ChangeGlucose
  \/ ChangeBmi
  \/ ClickSubmit
  \/ RemoteResponds
  \/ SubmitResumes

Spec == Init /\ [][Next]_vars

\* The microtask that resumes handleSubmit is always run.
FairSpec == Spec /\ WF_vars(SubmitResumes)

\* ================================================================ properties
\* A field value the contract rejects: unset, not a number, or out of range.
Rejects(v, lo, hi) == v = Str("") \/ v.t # "number" \/ v.n < lo \/ v.n > hi

FieldsToFlag(fd) ==
  {f \in {"age"} : Rejects(fd.age, 0, 120)}
    \cup {f \in {"avgGlucoseLevel"} : Rejects(fd.avgGlucoseLevel, 30, 600)}
    \cup {f \in {"bmi"} : Rejects(fd.bmi, 10, 100)}

Submittable(fd) == FieldsToFlag(fd) = {}

\* C1: right after a submit, the error map has an entry (a non-empty message)
\* for age iff age is unset, not a number or outside [0,120], for
\* avgGlucoseLevel iff the same with [30,600], for bmi iff the same with
\* [10,100], each decided on its own, and an entry for no other field.
C1_ErrorMapExact ==
  lastEvent = "submit" =>
    /\ DOMAIN validationErrors = FieldsToFlag(formData)
    /\ \A f \in DOMAIN validationErrors :
         validationErrors[f].t = "string" /\ validationErrors[f].s # ""

\* Scenario B: age 121, glucose 601, bmi 9 gives exactly three entries.
C1_Witness ==
  /\ lastEvent = "submit"
  /\ formData.age = Num(121) /\ formData.avgGlucoseLevel = Num(601) /\ formData.bmi = Num(9)
  /\ DOMAIN validationErrors = {"age", "avgGlucoseLevel", "bmi"}

\* C2: the boolean validateInputs returns is true iff the error map it
\* produces is empty, for the form data of every reachable state; and a
\* submit goes on to the remote call (loading) iff the stored map is empty.
C2_ValidIffNoErrors ==
  /\ validateInputs(formData).isValid <=> (DOMAIN validateInputs(formData).errors = {})
  /\ lastEvent = "submit" => (loading <=> (DOMAIN validationErrors = {}))

C2_Witness ==
  /\ lastEvent = "submit" /\ loading /\ validationErrors = NoProps
  /\ formData.age = Num(120) /\ formData.avgGlucoseLevel = Num(30) /\ formData.bmi = Num(100)

\* C3: every remote call issued carries an input whose age, avgGlucoseLevel
\* and bmi are set numbers within their ranges; and right after a submit of
\* an input that fails validation no call is in flight, loading is false, the
\* error map is stored and the summary message is set.
C3_InvalidNeverCalls ==
  /\ \A i \in DOMAIN calls : Submittable(calls[i].data)
  /\ (lastEvent = "submit" /\ ~Submittable(formData)) =>
       /\ calls = <<>>
       /\ ~loading
       /\ DOMAIN validationErrors # {}
       /\ error = Str(ValidationSummary)

C3_Witness ==
  /\ lastEvent = "submit" /\ ~Submittable(formData)
  /\ formData.age = Num(0 - 1) /\ formData.bmi = Num(10)
  /\ error = Str(ValidationSummary) /\ calls = <<>>

\* C4: at most one remote call is in flight, and while one is, loading is
\* true (the submit button is disabled).
C4_AtMostOneInFlight == Len(calls) <= 1 /\ (calls # <<>> => loading)

\* A call is in flight and the user has meanwhile edited the form into a
\* submittable input.
C4_Witness ==
  /\ Len(calls) = 1 /\ calls[1].promise.status = "pending" /\ loading
  /\ lastEvent = "change" /\ Submittable(formData) /\ formData # calls[1].data

\* The object a three-property response text denotes.
Denotes(sp, pr, rl) == Obj([strokePrediction |-> sp, probability |-> pr, riskLevel |-> rl])

ThreePropertyTexts == {TextHighRisk, TextOver100, TextOtherLabel, TextWrongType}

DenotedBy(tx) ==
  CASE tx = TextHighRisk   -> Denotes(Bool(TRUE), Num(72), Str("High Risk"))
    [] tx = TextOver100    -> Denotes(Bool(TRUE), Num(150), Str("High Risk"))
    [] tx = TextOtherLabel -> Denotes(Bool(FALSE), Num(12), Str("Minimal Risk"))
    [] tx = TextWrongType  -> Denotes(Bool(TRUE), Str("72"), Str("High Risk"))

\* C5: when the remote call returned a JSON text with strokePrediction,
\* probability and riskLevel, predictStrokeRisk is fulfilled with exactly the
\* three values of the text, and the step that resumes handleSubmit stores
\* that same record as result.
C5_FaceValue ==
  [][\A i \in DOMAIN calls :
       (calls[i].response.hasText /\ calls[i].response.text \in ThreePropertyTexts) =>
         /\ calls[i].promise = Fulfilled(DenotedBy(calls[i].response.text))
         /\ (lastEvent' = "settle" /\ calls' = Without(calls, i)) =>
              result' = DenotedBy(calls[i].response.text)]_vars

\* A probability of 150 is stored as it came.
C5_Witness ==
  /\ lastEvent = "settle"
  /\ result = Denotes(Bool(TRUE), Num(150), Str("High Risk"))

\* C6: when the remote call returned without text (absent or the empty
\* string), predictStrokeRisk is rejected with the "No response from AI
\* model" error, which is neither a transport error nor the parse error, and
\* carries no value.
C6_NoResponseError ==
  \A i \in DOMAIN calls :
    (calls[i].response.kind = "return"
       /\ (~calls[i].response.hasText \/ calls[i].response.text = <<>>)) =>
      /\ calls[i].promise.status = "rejected"
      /\ calls[i].promise.reason.message = "No response from AI model"
      /\ calls[i].promise.reason \notin TransportErrors
      /\ calls[i].promise.reason.name # "SyntaxError"
      /\ calls[i].promise.value = Undefined

C6_Witness ==
  /\ Len(calls) = 1 /\ calls[1].response = WithText(<<>>)
  /\ calls[1].promise = Rejected(NoResponseError)

\* C7: when the remote call returned a text that is not JSON, or JSON that
\* is not of the PredictionResult shape, predictStrokeRisk is rejected with
\* the parse error (and carries no value).
C7_SchemaViolationRejected ==
  \A i \in DOMAIN calls :
    (calls[i].response.hasText /\ calls[i].response.text # <<>>
       /\ (~JSONParse(calls[i].response.text).ok
             \/ ~IsPredictionResult(JSONParse(calls[i].response.text).value))) =>
      /\ calls[i].promise.status = "rejected"
      /\ calls[i].promise.reason.name = "SyntaxError"

\* C8: the step that resumes handleSubmit with a rejected promise, whatever
\* the reason (transport error, no response, parse error), sets the one
\* message "Failed to generate prediction. Please try again.", leaves result
\* null, and leaves no call in flight (nothing is retried); the remote call
\* coming back starts no call either.
C8_GenericFailure ==
  [][/\ \A i \in DOMAIN calls :
          (calls[i].promise.status = "rejected" /\ lastEvent' = "settle"
             /\ calls' = Without(calls, i)) =>
            /\ error' = Str(PredictionFailed)
            /\ result' = Null
            /\ calls' = <<>>
     /\ lastEvent' = "response" => Len(calls') = Len(calls)]_vars

C8_Witness ==
  /\ lastEvent = "settle" /\ error = Str(PredictionFailed)
  /\ result = Null /\ calls = <<>>

\* C9: once the remote call has come back, fulfilled or rejected, the
\* submission ends: loading becomes false with no call left in flight (the
\* submit button is enabled again); after the step that resumes handleSubmit
\* loading is false, and loading is never true without a call in flight to
\* end it.
C9_LeavesSubmitting ==
  /\ [](lastEvent = "settle" => ~loading)
  /\ [](loading => calls # <<>>)
  /\ MicrotaskPending ~> (~loading /\ calls = <<>>)

\* After a remote failure the form holds a submittable input and the button
\* is enabled.
C9_Witness ==
  /\ lastEvent = "settle" /\ ~loading /\ error = Str(PredictionFailed)
  /\ Submittable(formData)

\* C10: a submit leaves result null and error either null (input valid) or
\* the validation summary (input invalid), whatever was shown before; and
\* the step that resumes handleSubmit shows the outcome of the most recent
\* call and nothing else: its value with no error, or the failure message
\* with no result.
C10_ShowsLatestSubmit ==
  [][/\ lastEvent' = "submit" =>
          /\ result' = Null
          /\ error' = IF Submittable(formData') THEN Null ELSE Str(ValidationSummary)
     /\ (lastEvent' = "settle" /\ calls # <<>>) =>
          LET latest == calls[Len(calls)].promise IN
          /\ latest.status = "fulfilled" => (result' = latest.value /\ error' = Null)
          /\ latest.status = "rejected" =>
               (result' = Null /\ error' = Str(PredictionFailed))]_vars

C10_Witness ==
  /\ lastEvent = "submit" /\ ~Submittable(formData)
  /\ result = Null /\ error = Str(ValidationSummary)

\* C11: in every state, a stored result (result not null) is an object whose
\* probability is a number within [0,100] and whose riskLevel is one of
\* "Low Risk", "Moderate Risk", "High Risk".
C11_StoredResultInContract ==
  result # Null =>
    /\ result.t = "object"
    /\ {"probability", "riskLevel"} \subseteq DOMAIN result.p
    /\ result.p["probability"].t = "number"
    /\ result.p["probability"].n >= 0
    /\ result.p["probability"].n <= 100
    /\ result.p["riskLevel"].t = "string"
    /\ result.p["riskLevel"].s \in {"Low Risk", "Moderate Risk", "High Risk"}

\* C12: in every state between handler steps, loading = true implies that
\* result and error are both null, and result and error are never both
\* non-null.
C12_NoImpossibleState ==
  /\ loading => (result = Null /\ error = Null)
  /\ ~(result # Null /\ error # Null)

\* handleSubmit has run up to its await: the request is in flight and
\* neither a result nor an error is shown.
C12_Witness ==
  /\ lastEvent = "submit" /\ loading
  /\ Len(calls) = 1 /\ calls[1].promise.status = "pending"
  /\ result = Null /\ error = Null

====
